---- MODULE Spec2Model ----
(***************************************************************************)
(* Model of app.py of the Fake News Detector: the module start-up          *)
(* (lines 10-28) that binds the retriever and the classifier, and the      *)
(* request handler analyze_news (lines 30-108).                            *)
(*                                                                         *)
(* Strings the code inspects character by character (the input text, the  *)
(* classifier's labels) are sequences of one-character strings; strings    *)
(* the code inspects by fixed words (the headline) are sequences of words. *)
(* Scores are integers in units of 1/10000 (9200 is 0.92).                 *)
(***************************************************************************)
EXTENDS Integers, Sequences, FiniteSets, TLC

VARIABLES
  pc,               \* "loading", "serving", or "crashed" (start-up raised)
  retriever,        \* the global retriever: "unbound" or "bound"
  llm,              \* the global llm: "unbound", "primary" or "fallback"
  handled,          \* TRUE once analyze_news has returned at least once
  text,             \* the argument of the last analyze_news call
  indexReply,       \* what the similarity index answers for that text
  modelReply,       \* what the classifier answers for that text
  output,           \* the value the last analyze_news call returned
  indexCalls,       \* calls the last request made to the similarity index
  classifierCalls   \* calls the last request made to the classifier

vars == <<pc, retriever, llm, handled, text, indexReply, modelReply, output,
          indexCalls, classifierCalls>>

----------------------------------------------------------------------------
(* Bounds of the input text and program constants *)

\* longest run of whitespace put before and after the text's core
MaxPad == 1
\* longest core (the part of the text between the surrounding whitespace)
MaxCore == 11

\* len(text.strip()) < 10
MinLength == 10
\* text[:512]
MaxModelInput == 512
\* search_kwargs={"k": 3}
K == 3

----------------------------------------------------------------------------
(* Characters and strings *)

Whitespace == {" ", "\n", "\t"}

RECURSIVE lstrip(_)
lstrip(s) ==
  IF s # <<>> /\ Head(s) \in Whitespace THEN lstrip(Tail(s)) ELSE s

RECURSIVE rstrip(_)
rstrip(s) ==
  IF s # <<>> /\ s[Len(s)] \in Whitespace
  THEN rstrip(SubSeq(s, 1, Len(s) - 1))
  ELSE s

\* a strip that forgets the trailing whitespace
strip_left_only(s) == lstrip(s)

\* str.strip(): whitespace removed at both ends, never inside
strip(s) == rstrip(lstrip(s))

\* text[:n]
Prefix(s, n) == IF Len(s) <= n THEN s ELSE SubSeq(s, 1, n)

LowerToUpper ==
  [c \in {"a", "b", "e", "f", "g", "i", "k", "l", "m", "n", "o", "p", "r",
          "s", "t", "u", "v", "w", "x"} |->
     CASE c = "a" -> "A" [] c = "b" -> "B" [] c = "e" -> "E" [] c = "f" -> "F"
       [] c = "g" -> "G" [] c = "i" -> "I" [] c = "k" -> "K" [] c = "l" -> "L"
       [] c = "m" -> "M" [] c = "n" -> "N" [] c = "o" -> "O" [] c = "p" -> "P"
       [] c = "r" -> "R" [] c = "s" -> "S" [] c = "t" -> "T" [] c = "u" -> "U"
       [] c = "v" -> "V" [] c = "w" -> "W" [] c = "x" -> "X"]

\* str.upper()
upper(s) ==
  [i \in 1..Len(s) |->
     IF s[i] \in DOMAIN LowerToUpper THEN LowerToUpper[s[i]] ELSE s[i]]

\* sub in s
Contains(sub, s) ==
  \E i \in 0..(Len(s) - Len(sub)) :
     \A j \in 1..Len(sub) : s[i + j] = sub[j]

----------------------------------------------------------------------------
(* The label strings the code names *)

LABEL_1 == <<"L", "A", "B", "E", "L", "_", "1">>
LABEL_0 == <<"L", "A", "B", "E", "L", "_", "0">>
REAL == <<"R", "E", "A", "L">>
FAKE == <<"F", "A", "K", "E">>
POSITIVE == <<"P", "O", "S", "I", "T", "I", "V", "E">>

(* The headlines and colours the code names *)

LikelyCredible == <<"OK", "LIKELY", "CREDIBLE">>
PotentiallyMisleading == <<"ALERT", "POTENTIALLY", "MISLEADING">>
Credible == <<"OK", "CREDIBLE">>
Suspicious == <<"ALERT", "SUSPICIOUS">>
Green == "#22c55e"
Red == "#ef4444"

\* word in headline, for the fixed words the code looks for
HasWord(word, headline) == \E i \in 1..Len(headline) : headline[i] = word

----------------------------------------------------------------------------
(* The values analyze_news returns.  A returned string is kept by its      *)
(* parts: kind tells the fixed text, the other fields are the parts the    *)
(* code interpolates; a part the string does not have is empty.            *)

NoPercent == <<>>

Message(kind, cause) ==
  [kind |-> kind, cause |-> cause, headline |-> <<>>, color |-> "",
   confidence |-> NoPercent, matches |-> -1, wording |-> "", advice |-> ""]

\* "Please enter some news content to analyze."
EmptyMessage == Message("empty", "")
\* "Please provide more substantial news content (at least 10 characters)."
TooShortMessage == Message("too_short", "")
\* f"Error analyzing content: {str(e)} ... Please try again with different text."
ErrorMessage(cause) == Message("error", cause)
\* the output component's initial value
Placeholder == Message("placeholder", "")

\* f"{confidence:.1%}": percent with one decimal, as <<whole, tenth>>
FormatPercent(score) ==
  LET tenths == (score + 5) \div 10
  IN  <<tenths \div 10, tenths % 10>>

\* max(result, key=lambda x: x['score']): the first entry no later entry beats
RECURSIVE MaxIndex(_, _, _)
MaxIndex(result, i, best) ==
  IF i > Len(result) THEN best
  ELSE MaxIndex(result, i + 1,
                IF result[i].score > result[best].score THEN i ELSE best)

\* a max that keeps the last of the entries that tie
best_match_last(result) ==
  result[CHOOSE i \in 1..Len(result) :
           /\ \A j \in 1..Len(result) : result[j].score <= result[i].score
           /\ \A j \in (i + 1)..Len(result) : result[j].score < result[i].score]

best_match(result) == result[MaxIndex(result, 2, 1)]

\* the if / elif / else that picks the headline and its colour
credibility(label) ==
  IF label = LABEL_1 \/ Contains(REAL, upper(label))
  THEN [label |-> LikelyCredible, color |-> Green]
  ELSE IF label = LABEL_0 \/ Contains(FAKE, upper(label))
  THEN [label |-> PotentiallyMisleading, color |-> Red]
  ELSE [label |-> IF label = POSITIVE THEN Credible ELSE Suspicious,
        color |-> IF label = POSITIVE THEN Green ELSE Red]

\* 'credible' if 'CREDIBLE' in label else 'suspicious'
wording(headline) ==
  IF HasWord("CREDIBLE", headline) THEN "credible" ELSE "suspicious"

\* an advice choice that forgets the SUSPICIOUS headline
advice_misleading_only(headline) ==
  IF HasWord("MISLEADING", headline) THEN "RECOMMENDATIONS"
  ELSE "BEST PRACTICES"

\* the block appended after the analysis paragraph
advice(headline) ==
  IF HasWord("MISLEADING", headline) \/ HasWord("SUSPICIOUS", headline)
  THEN "RECOMMENDATIONS"
  ELSE "BEST PRACTICES"

\* a report whose headline gives way to an empty lookup
report_by_matches(best, docs) ==
  LET c == IF docs = <<>> THEN [label |-> Suspicious, color |-> Red]
           ELSE credibility(best.label)
  IN  [kind |-> "report", cause |-> "", headline |-> c.label,
       color |-> c.color, confidence |-> FormatPercent(best.score),
       matches |-> Len(docs), wording |-> wording(c.label),
       advice |-> advice(c.label)]

\* the report string built from the selected entry and the documents
report(best, docs) ==
  LET c == credibility(best.label)
  IN  [kind |-> "report", cause |-> "", headline |-> c.label,
       color |-> c.color, confidence |-> FormatPercent(best.score),
       matches |-> Len(docs), wording |-> wording(c.label),
       advice |-> advice(c.label)]

----------------------------------------------------------------------------
(* The two external calls of a request.  A reply is what the collaborator  *)
(* answers when it is called: it raises with a description, or returns.    *)

\* str(NameError) of reading the global retriever when start-up never bound it
RetrieverUnbound == "name 'retriever' is not defined"

\* a lookup that finds a retriever although start-up bound none
get_relevant_documents_unchecked(retr, reply) ==
  IF reply.raises
  THEN [raised |-> TRUE, cause |-> reply.cause, docs |-> <<>>, calls |-> 1]
  ELSE [raised |-> FALSE, cause |-> "", docs |-> reply.docs, calls |-> 1]

\* retriever.get_relevant_documents(text)
get_relevant_documents(retr, reply) ==
  IF retr = "unbound"
  THEN [raised |-> TRUE, cause |-> RetrieverUnbound, docs |-> <<>>, calls |-> 0]
  ELSE IF reply.raises
  THEN [raised |-> TRUE, cause |-> reply.cause, docs |-> <<>>, calls |-> 1]
  ELSE [raised |-> FALSE, cause |-> "", docs |-> reply.docs, calls |-> 1]

\* a classifier call that is made again when it raises
classify_with_retry(txt, reply) ==
  IF reply.raises
  THEN [raised |-> TRUE, cause |-> reply.cause, result |-> <<>>, calls |-> 2,
        input |-> Prefix(txt, MaxModelInput)]
  ELSE [raised |-> FALSE, cause |-> "", result |-> reply.result, calls |-> 1,
        input |-> Prefix(txt, MaxModelInput)]

\* llm(text[:512])[0]
classify(txt, reply) ==
  IF reply.raises
  THEN [raised |-> TRUE, cause |-> reply.cause, result |-> <<>>, calls |-> 1,
        input |-> Prefix(txt, MaxModelInput)]
  ELSE [raised |-> FALSE, cause |-> "", result |-> reply.result, calls |-> 1,
        input |-> Prefix(txt, MaxModelInput)]

Returned(out, nIndex, nClassifier) ==
  [output |-> out, indexCalls |-> nIndex, classifierCalls |-> nClassifier]

(* The try block, for the order its two calls are made in.  The first call *)
(* that raises leaves the block for the except clause, so the later call   *)
(* is not made.  The source's order is "index_first".                      *)
try_block(order, txt, retr, iReply, mReply) ==
  LET docs == get_relevant_documents(retr, iReply)
      cls == classify(txt, mReply)
  IN  IF order = "index_first"
      THEN IF docs.raised
           THEN Returned(ErrorMessage(docs.cause), docs.calls, 0)
           ELSE IF cls.raised
           THEN Returned(ErrorMessage(cls.cause), docs.calls, cls.calls)
           ELSE Returned(report(best_match(cls.result), docs.docs),
                         docs.calls, cls.calls)
      ELSE IF cls.raised
           THEN Returned(ErrorMessage(cls.cause), 0, cls.calls)
           ELSE IF docs.raised
           THEN Returned(ErrorMessage(docs.cause), docs.calls, cls.calls)
           ELSE Returned(report(best_match(cls.result), docs.docs),
                         docs.calls, cls.calls)

\* a handler that tests the raw text, not the stripped one, for emptiness
analyze_ordered_raw_empty(order, txt, retr, iReply, mReply) ==
  IF txt = <<>>
  THEN Returned(EmptyMessage, 0, 0)
  ELSE IF Len(strip(txt)) < MinLength
  THEN Returned(TooShortMessage, 0, 0)
  ELSE try_block(order, txt, retr, iReply, mReply)

\* analyze_news with the try block's calls in the given order
analyze_ordered(order, txt, retr, iReply, mReply) ==
  IF strip(txt) = <<>>
  THEN Returned(EmptyMessage, 0, 0)
  ELSE IF Len(strip(txt)) < MinLength
  THEN Returned(TooShortMessage, 0, 0)
  ELSE try_block(order, txt, retr, iReply, mReply)

\* analyze_news(text) as written: the lookup first, then the classifier
analyze_news(txt, retr, iReply, mReply) ==
  analyze_ordered("index_first", txt, retr, iReply, mReply)

----------------------------------------------------------------------------
(* Inputs: the texts a user submits and the collaborators' replies *)

Run(n, c) == [i \in 1..n |-> c]

\* n characters; with gap, the second one is a blank inside the text
Core(n, gap) == [i \in 1..n |-> IF gap /\ i = 2 /\ n >= 3 THEN " " ELSE "a"]

Pads == {Run(n, c) : n \in 0..MaxPad, c \in {" ", "\n"}}

Texts ==
  {lead \o Core(n, gap) \o trail :
     lead \in Pads, trail \in Pads, n \in 0..MaxCore, gap \in BOOLEAN}

Docs(n) == [i \in 1..n |-> i]

IndexRaises(cause) == [raises |-> TRUE, cause |-> cause, docs |-> <<>>]
IndexReturns(n) == [raises |-> FALSE, cause |-> "", docs |-> Docs(n)]

\* the index is unavailable, or returns up to K documents
IndexReplies == {IndexRaises("index unavailable")} \cup {IndexReturns(n) : n \in 0..K}

ModelRaises(cause) == [raises |-> TRUE, cause |-> cause, result |-> <<>>]
ModelReturns(result) == [raises |-> FALSE, cause |-> "", result |-> result]

Entry(label, score) == [label |-> label, score |-> score]

NEGATIVE == <<"N", "E", "G", "A", "T", "I", "V", "E">>
SATIRE == <<"S", "A", "T", "I", "R", "E">>
label_1 == <<"l", "a", "b", "e", "l", "_", "1">>
label_0 == <<"l", "a", "b", "e", "l", "_", "0">>
positive == <<"p", "o", "s", "i", "t", "i", "v", "e">>
negative == <<"n", "e", "g", "a", "t", "i", "v", "e">>
real_news == <<"r", "e", "a", "l", " ", "n", "e", "w", "s">>
fake_news == <<"f", "a", "k", "e", " ", "n", "e", "w", "s">>

\* the classifier is unavailable, or returns one of four typical results
EngineReplies ==
  { ModelRaises("model failure"),
    ModelReturns(<<Entry(LABEL_1, 9200), Entry(LABEL_0, 800)>>),
    ModelReturns(<<Entry(FAKE, 9234), Entry(REAL, 766)>>),
    ModelReturns(<<Entry(NEGATIVE, 1900), Entry(POSITIVE, 8100)>>),
    ModelReturns(<<Entry(NEGATIVE, 9200), Entry(POSITIVE, 800)>>) }

\* a too short text and two long enough ones, one of them padded
EngineTexts ==
  { Core(MinLength - 1, FALSE), Core(MinLength, FALSE),
    Run(1, " ") \o Core(MaxCore, TRUE) }

\* the label sets of the classifiers a deployment may load
Vocabularies ==
  { {LABEL_0, LABEL_1}, {label_0, label_1}, {FAKE, REAL},
    {fake_news, real_news}, {NEGATIVE, POSITIVE}, {negative, positive},
    {FAKE, REAL, SATIRE} }

Scores == {1900, 8100, 9200}

\* one entry per label of the vocabulary, in any order, with any scores
ResultsOf(vocabulary) ==
  LET n == Cardinality(vocabulary)
  IN  {r \in [1..n -> [label : vocabulary, score : Scores]] :
         \A i, j \in 1..n : i # j => r[i].label # r[j].label}

ClassificationResults == UNION {ResultsOf(v) : v \in Vocabularies}

NormalizerReplies == {ModelReturns(r) : r \in ClassificationResults}

\* the text of the requests that exercise the label normalizer
NormalizerTexts == {Core(MaxCore, TRUE)}

----------------------------------------------------------------------------
(* The state machine *)

Init ==
  /\ pc = "loading"
  /\ retriever = "unbound"
  /\ llm = "unbound"
  /\ handled = FALSE
  /\ text = <<>>
  /\ indexReply = IndexReturns(0)
  /\ modelReply = ModelRaises("")
  /\ output = Placeholder
  /\ indexCalls = 0
  /\ classifierCalls = 0

StartupSteps == {"embeddings", "vectorstore", "as_retriever", "pipeline"}

\* the module's try / except: failedAt is the step that raises ("none": no
\* step does), fallbackLoads tells whether the fallback pipeline loads
Startup ==
  /\ pc = "loading"
  /\ \E failedAt \in StartupSteps \cup {"none"}, fallbackLoads \in BOOLEAN :
       /\ retriever' = IF failedAt \in {"none", "pipeline"}
                       THEN "bound" ELSE "unbound"
       /\ llm' = IF failedAt = "none" THEN "primary"
                 ELSE IF fallbackLoads THEN "fallback" ELSE "unbound"
       /\ pc' = IF failedAt = "none" \/ fallbackLoads
                THEN "serving" ELSE "crashed"
  /\ UNCHANGED <<handled, text, indexReply, modelReply, output,
                 indexCalls, classifierCalls>>

\* one click or submit: analyze_news runs on the text and its return value
\* replaces the output
Request(texts, indexReplies, modelReplies) ==
  /\ pc = "serving"
  /\ \E txt \in texts, iReply \in indexReplies, mReply \in modelReplies :
       LET r == analyze_news(txt, retriever, iReply, mReply)
       IN  /\ text' = txt
           /\ indexReply' = iReply
           /\ modelReply' = mReply
           /\ output' = r.output
           /\ indexCalls' = r.indexCalls
           /\ classifierCalls' = r.classifierCalls
           /\ handled' = TRUE
  /\ UNCHANGED <<pc, retriever, llm>>

\* requests over every index reply and the typical classifier replies
Analyze == Request(EngineTexts, IndexReplies, EngineReplies)

\* requests over every text, both collaborators answering
Validate ==
  Request(Texts, {IndexReturns(K)},
          {ModelReturns(<<Entry(LABEL_1, 9200), Entry(LABEL_0, 800)>>)})

\* requests over every classification result, the index answering
AnalyzeLabels == Request(NormalizerTexts, {IndexReturns(K)}, NormalizerReplies)

Next == Startup \/ Analyze

Spec == Init /\ [][Next]_vars

NextValidator == Startup \/ Validate

SpecValidator == Init /\ [][NextValidator]_vars

NextNormalizer == Startup \/ AnalyzeLabels

SpecNormalizer == Init /\ [][NextNormalizer]_vars

----------------------------------------------------------------------------
(* Vocabulary of the properties, stated without the handler's operators *)

NonBlank(s) == {i \in 1..Len(s) : s[i] \notin Whitespace}

\* the length of s without its leading and trailing whitespace
TrimmedLength(s) ==
  IF NonBlank(s) = {} THEN 0
  ELSE LET first == CHOOSE i \in NonBlank(s) : \A j \in NonBlank(s) : i <= j
           last == CHOOSE i \in NonBlank(s) : \A j \in NonBlank(s) : j <= i
       IN  last - first + 1

ValidInput == TrimmedLength(text) >= MinLength

IsReport == handled /\ output.kind = "report"

CredibleHeadlines == {LikelyCredible, Credible}
MisleadingHeadlines == {PotentiallyMisleading, Suspicious}

\* the verdict category a report shows
Category(out) ==
  IF out.headline \in CredibleHeadlines THEN "CREDIBLE"
  ELSE IF out.headline \in MisleadingHeadlines THEN "MISLEADING"
  ELSE "NONE"

\* the index of the first entry that has the maximum score
FirstMaximum(result) ==
  CHOOSE i \in 1..Len(result) :
    /\ \A j \in 1..Len(result) : result[j].score <= result[i].score
    /\ \A j \in 1..(i - 1) : result[j].score < result[i].score

UniqueMaximum(result) ==
  \A j \in 1..Len(result) :
    j # FirstMaximum(result)
      => result[j].score < result[FirstMaximum(result)].score

Reorderings(result) ==
  {[i \in 1..Len(result) |-> result[p[i]]] :
     p \in {q \in [1..Len(result) -> 1..Len(result)] :
              \A i, j \in 1..Len(result) : i # j => q[i] # q[j]}}

----------------------------------------------------------------------------
(* Properties *)

\* C1: when the lookup raises on a valid input and the classifier would
\* succeed, analyze_news returns a report with the classifier's verdict and
\* 0 matches, never an error message.
C1_LookupErrorDowngraded ==
  (handled /\ ValidInput /\ retriever = "bound" /\ indexReply.raises
     /\ ~modelReply.raises)
    => /\ output.kind = "report"
       /\ output.matches = 0
       /\ Category(output)
            = Category(report(modelReply.result[FirstMaximum(modelReply.result)],
                              <<>>))

\* C2 as stated: every input whose trimmed length is below 10 gets the
\* too-short message, and neither collaborator is called.
C2_TooShortBelowMinimum ==
  (handled /\ TrimmedLength(text) < MinLength)
    => output = TooShortMessage /\ indexCalls = 0 /\ classifierCalls = 0

\* C2 as amended: every input whose trimmed length is between 1 and 9 gets
\* the too-short message, and for every input whose trimmed length is below
\* 10 neither collaborator is called.
C2_TooShort ==
  handled =>
    /\ TrimmedLength(text) \in 1..(MinLength - 1) => output = TooShortMessage
    /\ TrimmedLength(text) < MinLength
         => indexCalls = 0 /\ classifierCalls = 0

\* a text of 10 or more characters whose trimmed length is 9 was refused
C2_Witness ==
  /\ handled /\ retriever = "bound"
  /\ Len(text) >= MinLength /\ TrimmedLength(text) = MinLength - 1
  /\ output = TooShortMessage /\ indexCalls = 0 /\ classifierCalls = 0

\* C3: an empty or all-whitespace input gets the empty-input message and
\* nothing else.
C3_EmptyInput ==
  (handled /\ \A i \in 1..Len(text) : text[i] \in Whitespace)
    => output = EmptyMessage

\* a non-empty text of whitespace alone got the empty-input message
C3_Witness ==
  /\ handled /\ Len(text) > 0
  /\ \A i \in 1..Len(text) : text[i] \in Whitespace
  /\ output = EmptyMessage

\* C4: when the classifier call raises on a valid input, analyze_news
\* returns the error message with the cause's description, without headline,
\* confidence or advice block, and the classifier was called once.
C4_ClassifierError ==
  (handled /\ ValidInput /\ classifierCalls >= 1 /\ modelReply.raises)
    => /\ output.kind = "error"
       /\ output.cause = modelReply.cause
       /\ output.headline = <<>>
       /\ output.confidence = NoPercent
       /\ output.advice = ""
       /\ classifierCalls = 1

\* the classifier was called on a valid input and raised
C4_Witness ==
  /\ handled /\ ValidInput /\ modelReply.raises /\ classifierCalls = 1
  /\ indexCalls = 1 /\ output = ErrorMessage("model failure")

\* C5: two consecutive requests that get the same classification result and
\* both end in a report show the same headline, colour, confidence, wording
\* and advice block, whatever documents each lookup returned; their match
\* counts are the numbers of documents returned.
C5_VerdictFromClassifierOnly ==
  [][ (IsReport /\ IsReport' /\ modelReply' = modelReply)
        => /\ output'.headline = output.headline
           /\ output'.color = output.color
           /\ output'.confidence = output.confidence
           /\ output'.wording = output.wording
           /\ output'.advice = output.advice
           /\ output'.matches = Len(indexReply'.docs) ]_vars

\* a report was rendered although the lookup returned no document
C5_Witness ==
  /\ IsReport /\ ~indexReply.raises /\ indexReply.docs = <<>>
  /\ output.matches = 0 /\ Category(output) = "CREDIBLE"

\* C6: the selected label is mapped case-insensitively: containing "real",
\* being LABEL_1 or being "positive" gives CREDIBLE; otherwise containing
\* "fake", being LABEL_0 or being "negative" gives MISLEADING.
C6_CaseInsensitiveMapping ==
  IsReport =>
    LET selected == upper(modelReply.result[FirstMaximum(modelReply.result)].label)
        credible == Contains(REAL, selected) \/ selected = LABEL_1
                      \/ selected = POSITIVE
        misleading == Contains(FAKE, selected) \/ selected = LABEL_0
                        \/ selected = NEGATIVE
    IN  /\ credible => Category(output) = "CREDIBLE"
        /\ (~credible /\ misleading) => Category(output) = "MISLEADING"

\* C7: the report shows the first entry that has the maximum score: its
\* headline and its score as the confidence; with a unique maximum every
\* reordering of the result gives the same category.
C7_FirstMaximumSelected ==
  IsReport =>
    LET result == modelReply.result
        selected == result[FirstMaximum(result)]
    IN  /\ output.confidence = FormatPercent(selected.score)
        /\ output.headline = credibility(selected.label).label
        /\ UniqueMaximum(result)
             => \A other \in Reorderings(result) :
                  Category(report(best_match(other), indexReply.docs))
                    = Category(output)

\* two entries of opposite categories tie for the maximum, and the report
\* shows the earlier one
C7_Witness ==
  /\ IsReport /\ Len(modelReply.result) = 3
  /\ \E i, j \in 1..3 :
       /\ i < j /\ i = FirstMaximum(modelReply.result)
       /\ modelReply.result[i].score = modelReply.result[j].score
       /\ credibility(modelReply.result[i].label).label = PotentiallyMisleading
       /\ credibility(modelReply.result[j].label).label = LikelyCredible
  /\ output.headline = PotentiallyMisleading

\* C8 as stated: the headline is one of two fixed strings, one per category,
\* and the advice block goes with the category.
C8_TwoHeadlines ==
  IsReport =>
    /\ output.headline \in {LikelyCredible, PotentiallyMisleading}
    /\ output.advice = "RECOMMENDATIONS" <=> Category(output) = "MISLEADING"
    /\ output.advice = "BEST PRACTICES" <=> Category(output) = "CREDIBLE"

\* C8 as amended: the headline is one of four fixed strings, two per
\* category, and wording, colour and advice block go with the headline's
\* category.
C8_HeadlineAdviceAgree ==
  IsReport =>
    /\ output.headline \in CredibleHeadlines \cup MisleadingHeadlines
    /\ output.advice \in {"RECOMMENDATIONS", "BEST PRACTICES"}
    /\ output.advice = "RECOMMENDATIONS" <=> Category(output) = "MISLEADING"
    /\ output.advice = "BEST PRACTICES" <=> Category(output) = "CREDIBLE"
    /\ output.wording = "suspicious" <=> Category(output) = "MISLEADING"
    /\ output.wording = "credible" <=> Category(output) = "CREDIBLE"
    /\ output.color = Red <=> Category(output) = "MISLEADING"
    /\ output.color = Green <=> Category(output) = "CREDIBLE"

\* a report of the sentiment branch: the SUSPICIOUS headline with the
\* recommendations block
C8_Witness ==
  /\ IsReport /\ output.headline = Suspicious
  /\ output.advice = "RECOMMENDATIONS" /\ output.wording = "suspicious"

\* C9: analyze_news returns the same value when the classifier is called
\* before the lookup as when the lookup is called first.
C9_OrderIndependent ==
  (handled /\ retriever = "bound") =>
    output = analyze_ordered("classifier_first", text, retriever,
                             indexReply, modelReply).output

\* C10: when start-up left the retriever unbound, the process serves with
\* the fallback classifier, the retriever stays unbound, and every request
\* with a valid input ends in the error message without a classifier call.
C10_UnboundRetriever ==
  /\ [](pc = "serving" /\ retriever = "unbound"
          => /\ llm = "fallback"
             /\ (handled /\ ValidInput)
                  => output.kind = "error" /\ classifierCalls = 0)
  /\ [][pc = "serving" /\ retriever = "unbound" => retriever' = "unbound"]_vars

\* a valid request, both collaborators ready to answer, ended in the error
\* message of the unbound retriever
C10_Witness ==
  /\ pc = "serving" /\ retriever = "unbound" /\ llm = "fallback"
  /\ handled /\ ValidInput /\ ~indexReply.raises /\ ~modelReply.raises
  /\ output = ErrorMessage(RetrieverUnbound)
  /\ indexCalls = 0 /\ classifierCalls = 0

====
